---- MODULE Spec2Model ----
(***************************************************************************)
(* Model of the TCG receipt kiosk (main.py, getRandomPerson.py) and of the  *)
(* label printing helpers (food_label.py).                                 *)
(*                                                                         *)
(* Strings are sequences of one-character strings.  Weights are integers   *)
(* counted in half units (RARITY_WEIGHTS holds 2.5 and 0.5), so the table  *)
(* 40, 30, 20, 7, 2.5, 0.5 is 80, 60, 40, 14, 5, 1.  The product           *)
(* random() * total of random.choices is a real in [0, total); because     *)
(* every cumulative weight is an integer number of half units, bisect      *)
(* gives the same index for the product and for its integer part, so the   *)
(* draw is modelled by its integer part.                                   *)
(***************************************************************************)
EXTENDS Integers, Sequences, FiniteSets, TLC

\* ------------------------------------------------------------------ bounds
MaxLen == 6
MaxWidth == 6
MaxTiers == 3
MaxWeight == 2
MaxJobs == 2
MaxDim == 6
MaxTarget == 4
MaxText == 3

\* --------------------------------------------------------------- variables
VARIABLES
    \* wrap_text applied to one input
    w_text, w_width, w_lines, w_done,
    \* get_weighted_rarity / random.choices applied to one table and one draw
    s_table, s_draw, s_result, s_done,
    \* module-level configuration of main.py / getRandomPerson.py
    rarity_weights, text_width, CAMERA_AVAILABLE, PRINTER_AVAILABLE, PIL_AVAILABLE,
    \* widgets of TCGApp
    generate_button, test_button, progress,
    \* one generate_receipt worker thread per job
    pc, testing, selected_rarity, person, processed_image, session, out, err,
    outcome,
    \* per-job counts of the calls made so far
    n_sample, n_fetch, n_capture, n_open, n_record,
    \* test_encoding_options: one run of the code-page test page
    e_pc, e_idx, e_accepts, e_charcode, e_active, e_rejections, e_out,
    e_session, e_transport,
    \* the resize step of the image processing applied to one photo size
    i_w, i_h, i_T, i_size, i_done,
    \* replace_norwegian_chars applied to one string
    r_text, r_result, r_done, r_regex, r_regex_done,
    \* take_and_process_photo_custom: one run of the photo stage
    c_pc, c_camera, c_pending, c_cleanup_failed, c_photo, c_result

wrapVars == <<w_text, w_width, w_lines, w_done>>
samplerVars == <<s_table, s_draw, s_result, s_done>>
configVars == <<rarity_weights, text_width, CAMERA_AVAILABLE, PRINTER_AVAILABLE, PIL_AVAILABLE>>
uiVars == <<generate_button, test_button, progress>>
threadVars == <<pc, testing, selected_rarity, person, processed_image, session, out, err, outcome>>
countVars == <<n_sample, n_fetch, n_capture, n_open, n_record>>
jobVars == <<configVars, uiVars, threadVars, countVars>>
encVars == <<e_pc, e_idx, e_accepts, e_charcode, e_active, e_rejections, e_out,
            e_session, e_transport>>
imgVars == <<i_w, i_h, i_T, i_size, i_done>>
replVars == <<r_text, r_result, r_done, r_regex, r_regex_done>>
camVars == <<c_pc, c_camera, c_pending, c_cleanup_failed, c_photo, c_result>>
vars == <<wrapVars, samplerVars, jobVars, encVars, imgVars, replVars, camVars>>

\* ================================================================ wrap_text
SP == " "

\* str.split(): the maximal runs of non-whitespace characters, in order
RECURSIVE split_from(_, _, _, _)
split_from(text, i, cur, acc) ==
    IF i > Len(text)
    THEN IF cur = <<>> THEN acc ELSE Append(acc, cur)
    ELSE IF text[i] = SP
         THEN split_from(text, i + 1, <<>>, IF cur = <<>> THEN acc ELSE Append(acc, cur))
         ELSE split_from(text, i + 1, Append(cur, text[i]), acc)

split(text) == split_from(text, 1, <<>>, <<>>)

\* mutant: strict comparison against the width
wrap_word_strict(st, word, width) ==
    IF Len(st.current_line \o <<SP>> \o word) < width
    THEN [lines |-> st.lines,
          current_line |-> IF st.current_line # <<>>
                           THEN st.current_line \o <<SP>> \o word
                           ELSE word]
    ELSE [lines |-> IF st.current_line # <<>>
                    THEN Append(st.lines, st.current_line)
                    ELSE st.lines,
          current_line |-> word]

\* mutant: the full line is not appended before the next word replaces it
wrap_word_drop(st, word, width) ==
    IF Len(st.current_line \o <<SP>> \o word) <= width
    THEN [lines |-> st.lines,
          current_line |-> IF st.current_line # <<>>
                           THEN st.current_line \o <<SP>> \o word
                           ELSE word]
    ELSE [lines |-> st.lines, current_line |-> word]

\* the body of the for loop of wrap_text, for one word
wrap_word(st, word, width) ==
    IF Len(st.current_line \o <<SP>> \o word) <= width
    THEN [lines |-> st.lines,
          current_line |-> IF st.current_line # <<>>
                           THEN st.current_line \o <<SP>> \o word
                           ELSE word]
    ELSE [lines |-> IF st.current_line # <<>>
                    THEN Append(st.lines, st.current_line)
                    ELSE st.lines,
          current_line |-> word]

RECURSIVE wrap_loop(_, _, _)
wrap_loop(words, st, width) ==
    IF words = <<>> THEN st
    ELSE wrap_loop(Tail(words), wrap_word(st, Head(words), width), width)

wrap_text(text, width) ==
    LET st == wrap_loop(split(text), [lines |-> <<>>, current_line |-> <<>>], width)
    IN IF st.current_line # <<>> THEN Append(st.lines, st.current_line) ELSE st.lines

\* ------------------------------------------------------ inputs of wrap_text
Alphabet == {"a", "b", SP}

RECURSIVE TextsUpTo(_)
TextsUpTo(n) ==
    IF n = 0 THEN {<<>>}
    ELSE LET S == TextsUpTo(n - 1)
         IN S \cup {Append(t, c) : t \in {x \in S : Len(x) = n - 1}, c \in Alphabet}

AaBbCc == <<"a", "a", SP, "b", "b", SP, "c", "c">>
LongWord == <<"s", "u", "p", "e", "r", "c", "a", "l", "i">>
Texts == TextsUpTo(MaxLen) \cup {AaBbCc, LongWord, LongWord \o <<SP>> \o AaBbCc}
Widths == (0 - 1) .. MaxWidth

InitWrap ==
    /\ w_text \in Texts
    /\ w_width \in Widths
    /\ w_lines = <<>>
    /\ w_done = FALSE

WrapCall ==
    /\ ~w_done
    /\ w_lines' = wrap_text(w_text, w_width)
    /\ w_done' = TRUE
    /\ UNCHANGED <<w_text, w_width>>

\* ========================================================== rarity sampler
RARITY_WEIGHTS ==
    << <<"E", 80>>, <<"D", 60>>, <<"C", 40>>, <<"B", 14>>, <<"A", 5>>, <<"S", 1>> >>

keys(table) == [i \in 1..Len(table) |-> table[i][1]]
values(table) == [i \in 1..Len(table) |-> table[i][2]]

\* itertools.accumulate: running sums
RECURSIVE accumulate(_)
accumulate(ws) ==
    IF ws = <<>> THEN <<>>
    ELSE LET n == Len(ws)
             front == accumulate(SubSeq(ws, 1, n - 1))
         IN Append(front, (IF n = 1 THEN 0 ELSE front[n - 1]) + ws[n])

\* mutant: bisect_left (the first position whose value is >= x)
RECURSIVE bisect_left(_, _, _, _)
bisect_left(a, x, lo, hi) ==
    IF lo < hi
    THEN LET mid == (lo + hi) \div 2
         IN IF a[mid + 1] < x
            THEN bisect_left(a, x, mid + 1, hi)
            ELSE bisect_left(a, x, lo, mid)
    ELSE lo

\* bisect.bisect (bisect_right) on a[lo:hi], 0-based positions
RECURSIVE bisect(_, _, _, _)
bisect(a, x, lo, hi) ==
    IF lo < hi
    THEN LET mid == (lo + hi) \div 2
         IN IF x < a[mid + 1]
            THEN bisect(a, x, lo, mid)
            ELSE bisect(a, x, mid + 1, hi)
    ELSE lo

IndexError == "IndexError"
ValueError == "ValueError"

total_of(weights) ==
    LET cum == accumulate(weights) IN IF cum = <<>> THEN 0 ELSE cum[Len(cum)]

\* mutant: no check of the total (random.choices before the check was added)
choices_unchecked(population, weights, x) ==
    LET n == Len(population)
        cum_weights == accumulate(weights)
    IN IF cum_weights = <<>> THEN IndexError
       ELSE population[bisect(cum_weights, x, 0, n - 1) + 1]

\* random.choices(population, weights=weights, k=1)[0], x = random() * total
choices(population, weights, x) ==
    LET n == Len(population)
        cum_weights == accumulate(weights)
    IN IF cum_weights = <<>> THEN IndexError
       ELSE IF cum_weights[n] <= 0 THEN ValueError
       ELSE population[bisect(cum_weights, x, 0, n - 1) + 1]

get_weighted_rarity(table, x) == choices(keys(table), values(table), x)

\* the values random() * total can take, as integer parts
Draws(table) ==
    LET total == total_of(values(table))
    IN IF total <= 0 THEN {0} ELSE 0 .. (total - 1)

\* the draws next to a cumulative weight: the result of the sampler is
\* constant between two of them
BoundaryDraws(table) ==
    LET cum == accumulate(values(table))
    IN {x \in Draws(table) :
          x = 0 \/ \E i \in 1..Len(cum) : x = cum[i] - 1 \/ x = cum[i]}

\* --------------------------------------------------- inputs of the sampler
TierOrder == <<"E", "D", "C", "B", "A", "S">>
Tiers == {TierOrder[i] : i \in 1..6}

RECURSIVE TablesOfLen(_)
TablesOfLen(n) ==
    IF n = 0 THEN {<<>>}
    ELSE {Append(t, <<TierOrder[n], w>>) : t \in TablesOfLen(n - 1), w \in 0..MaxWeight}

Tables == UNION {TablesOfLen(n) : n \in 0..MaxTiers} \cup {RARITY_WEIGHTS}

InitSampler ==
    /\ s_table \in Tables
    /\ s_draw \in Draws(s_table)
    /\ s_result = "none"
    /\ s_done = FALSE

SampleCall ==
    /\ ~s_done
    /\ s_result' = get_weighted_rarity(s_table, s_draw)
    /\ s_done' = TRUE
    /\ UNCHANGED <<s_table, s_draw>>


\* ============================================================= receipt job
DEFAULT_TEXT_WIDTH == 24

Jobs == 1..MaxJobs
None == "None"

\* the people collection of the catalog: one entry of tier E, none elsewhere;
\* its description is 28 characters long, more than the default text width
Rep(c, n) == [i \in 1..n |-> c]
People == {"p1"}
Rarity(p) == "E"
Description(p) == Rep("a", 12) \o <<SP>> \o Rep("b", 12) \o <<SP>> \o <<"c", "c">>

Responses == {"ok", "http_error", "network_error"}

\* get_people_by_rarity: the items on status 200, [] on any failure
get_people_by_rarity(resp, rarity) ==
    IF resp = "ok" THEN {p \in People : Rarity(p) = rarity} ELSE {}

\* generate_receipt, step 2: "if not person: raise"
after_select_unchecked(p) == "photo"

after_select(p) == IF p = None THEN "except" ELSE "photo"

\* get_random_person after the fetch: None when the list is empty
after_fetch_retry(items) == IF items = {} THEN "select" ELSE "return"

after_fetch(items) == "return"

\* simulate_print_output: the wrap width derived from text_width
effective_width(tw) ==
    LET mult == IF tw <= 24 THEN 1
                ELSE IF tw \div 20 < 2 THEN tw \div 20 ELSE 2
        half == (mult + mult) \div 2
    IN tw \div (IF half > 1 THEN half ELSE 1)

D(op, part, payload) == [op |-> op, part |-> part, payload |-> payload]

\* print_receipt: header, person info, description, date and time
text_directives(p) ==
    << D("set", "header", <<>>), D("text", "header", <<>>), D("ln", "header", <<>>),
       D("set", "name", <<>>), D("text", "name", <<>>),
       D("set", "rarity", <<>>), D("text", "rarity", <<>>), D("ln", "rarity", <<>>),
       D("set", "description", <<>>),
       D("text", "description", <<Description(p)>>),
       D("ln", "description", <<>>),
       D("set", "timestamp", <<>>), D("text", "timestamp", <<>>),
       D("ln", "timestamp", <<>>) >>

\* print_receipt: "if image and PIL_AVAILABLE"
image_directives(image) ==
    IF image # None /\ PIL_AVAILABLE
    THEN << D("set", "image", <<>>), D("image", "image", <<>>),
            D("ln", "image", <<>>) >>
    ELSE <<>>

\* mutant: the image is sent before the text
directives_image_first(p, image) ==
    image_directives(image) \o text_directives(p) \o << D("ln", "footer", <<>>) >>

\* print_receipt: the calls made on the printer between open() and close()
directives(p, image) ==
    text_directives(p) \o image_directives(image) \o << D("ln", "footer", <<>>) >>

\* simulate_print_output: the lines printed on the console
simulated(p, image) ==
    << D("print", "header", <<>>), D("print", "name", <<>>),
       D("print", "rarity", <<>>), D("print", "textsize", <<>>),
       D("print", "description",
         wrap_text(Description(p), effective_width(text_width))),
       D("print", "timestamp", <<>>) >>
    \o (IF image # None THEN << D("print", "image", <<>>) >> ELSE <<>>)
    \o << D("print", "footer", <<>>) >>

\* the positions at which a directive raises: the first directive of each
\* kind (set, text, ln, image) and the last directive
FailPoints(ds) ==
    {i \in 1..Len(ds) : \A k \in 1..(i - 1) : ds[k].op # ds[i].op} \cup {Len(ds)}

\* the outcomes of the three guarded imports: <<printer, camera, PIL>>;
\* test_camera imports PIL itself, so the camera implies PIL
Imports == {<<TRUE, TRUE, TRUE>>, <<FALSE, TRUE, TRUE>>, <<TRUE, FALSE, FALSE>>}

Running(j) == pc[j] \notin {"idle", "done"}

InitJobs ==
    /\ text_width = DEFAULT_TEXT_WIDTH
    /\ \E cfg \in Imports :
          /\ PRINTER_AVAILABLE = cfg[1]
          /\ CAMERA_AVAILABLE = cfg[2]
          /\ PIL_AVAILABLE = cfg[3]
    /\ generate_button = "normal"
    /\ test_button = "normal"
    /\ progress = "stopped"
    /\ pc = [j \in Jobs |-> "idle"]
    /\ testing = [j \in Jobs |-> FALSE]
    /\ selected_rarity = [j \in Jobs |-> None]
    /\ person = [j \in Jobs |-> None]
    /\ processed_image = [j \in Jobs |-> None]
    /\ session = [j \in Jobs |-> "none"]
    /\ out = [j \in Jobs |-> <<>>]
    /\ err = [j \in Jobs |-> "none"]
    /\ outcome = [j \in Jobs |-> "none"]
    /\ n_sample = [j \in Jobs |-> 0]
    /\ n_fetch = [j \in Jobs |-> 0]
    /\ n_capture = [j \in Jobs |-> 0]
    /\ n_open = [j \in Jobs |-> 0]
    /\ n_record = [j \in Jobs |-> 0]

\* threading.Thread(target=self.generate_receipt, args=(t,)).start()
StartThread(t) ==
    \E j \in Jobs :
        /\ pc[j] = "idle"
        /\ \A k \in 1..(j - 1) : pc[k] # "idle"
        /\ pc' = [pc EXCEPT ![j] = "check"]
        /\ testing' = [testing EXCEPT ![j] = t]

\* generate_receipt_threaded / test_receipt_threaded
receipt_threaded(t) ==
    /\ generate_button' = "disabled"
    /\ test_button' = "disabled"
    /\ progress' = "running"
    /\ StartThread(t)
    /\ UNCHANGED <<configVars, countVars, selected_rarity, person,
                   processed_image, session, out, err, outcome>>

ClickGenerate == generate_button = "normal" /\ receipt_threaded(FALSE)
ClickTest == test_button = "normal" /\ receipt_threaded(TRUE)
PressReturn == receipt_threaded(FALSE)
PressKPEnter == receipt_threaded(FALSE)

Raise(j, e) ==
    /\ pc' = [pc EXCEPT ![j] = "except"]
    /\ err' = [err EXCEPT ![j] = e]

\* mutant: the result of the health check is not looked at
after_health_ignored(ok) == "select"

\* step 1: "if not check_pocketbase_connection(): raise Exception(...)"
after_health(ok) == IF ok THEN "select" ELSE "except"

\* step 1: check_pocketbase_connection
CheckConnection(j) ==
    /\ pc[j] = "check"
    /\ \E ok \in BOOLEAN :
          /\ pc' = [pc EXCEPT ![j] = after_health(ok)]
          /\ err' = [err EXCEPT ![j] = IF ok THEN @ ELSE "connect"]
    /\ UNCHANGED <<configVars, uiVars, countVars, testing, selected_rarity,
                   person, processed_image, session, out, outcome>>

\* get_random_person: selected_rarity = get_weighted_rarity()
SelectRarity(j) ==
    /\ pc[j] = "select"
    /\ n_sample' = [n_sample EXCEPT ![j] = @ + 1]
    /\ \E x \in BoundaryDraws(rarity_weights) :
          LET r == get_weighted_rarity(rarity_weights, x)
          IN IF r \in {IndexError, ValueError}
             THEN Raise(j, r) /\ UNCHANGED selected_rarity
             ELSE /\ selected_rarity' = [selected_rarity EXCEPT ![j] = r]
                  /\ pc' = [pc EXCEPT ![j] = "fetch"]
                  /\ UNCHANGED err
    /\ UNCHANGED <<configVars, uiVars, testing, person, processed_image,
                   session, out, outcome, n_fetch, n_capture, n_open, n_record>>

\* get_random_person: the fetch, the choice, and the check of generate_receipt
FetchPerson(j) ==
    /\ pc[j] = "fetch"
    /\ n_fetch' = [n_fetch EXCEPT ![j] = @ + 1]
    /\ \E resp \in Responses :
          LET items == get_people_by_rarity(resp, selected_rarity[j])
          IN IF after_fetch(items) = "select"
             THEN /\ pc' = [pc EXCEPT ![j] = "select"]
                  /\ UNCHANGED <<person, err>>
             ELSE \E p \in (IF items = {} THEN {None} ELSE items) :
                    /\ person' = [person EXCEPT ![j] = p]
                    /\ IF after_select(p) = "except"
                       THEN Raise(j, "no_person")
                       ELSE pc' = [pc EXCEPT ![j] = "photo"] /\ UNCHANGED err
    /\ selected_rarity' = [selected_rarity EXCEPT ![j] = None]
    /\ UNCHANGED <<configVars, uiVars, testing, processed_image, session, out,
                   outcome, n_sample, n_capture, n_open, n_record>>

\* ---------------------------------------------------- image processing
DEFAULT_IMAGE_WIDTH == 256

ZeroDivisionError == "ZeroDivisionError"

\* new_height = int(image_width * (original_height / float(original_width)));
\* for the sizes used here the double product is exact or far from an
\* integer, so int() of it is the integer quotient
new_height(w, h, T) == (T * h) \div w

\* the size of resized_img, or the exception of the division or of
\* Image.resize (which refuses a target dimension below 1)
resize(w, h, T) ==
    IF w = 0 THEN [error |-> ZeroDivisionError, size |-> <<0, 0>>]
    ELSE IF T < 1 \/ new_height(w, h, T) < 1
         THEN [error |-> ValueError, size |-> <<0, 0>>]
         ELSE [error |-> "none", size |-> <<T, new_height(w, h, T)>>]

IsError(r) == r.error # "none"

NoSize == [error |-> "none", size |-> <<0, 0>>]

\* a photo of positive width and height and a positive target width
InitImg ==
    /\ i_w \in 1..MaxDim /\ i_h \in 1..MaxDim /\ i_T \in 1..MaxTarget
    /\ i_size = NoSize /\ i_done = FALSE

\* original_width, original_height = img.size ... img.resize(...)
ResizeCall ==
    /\ ~i_done
    /\ i_size' = resize(i_w, i_h, i_T)
    /\ i_done' = TRUE
    /\ UNCHANGED <<i_w, i_h, i_T>>

\* the photographs a capture can leave in capture.jpg, as <<width, height>>:
\* a regular one, one of zero width and one of zero height
JobPhotos == {<<4, 3>>, <<0, 3>>, <<4, 0>>}

CameraOutcomes == {"camera_error", "cancelled", "captured"}

\* mutant: the camera error is not caught around the photo step
photo_error_propagates == "except"

\* generate_receipt, step 3: "except Exception as e" around the photo step
on_photo_error == "photo_except"

\* step 3: take_and_process_photo_custom inside its try block
TakePhoto(j) ==
    /\ pc[j] = "photo"
    /\ IF CAMERA_AVAILABLE /\ PIL_AVAILABLE
       THEN \E o \in CameraOutcomes :
              \/ /\ o = "camera_error"
                 /\ pc' = [pc EXCEPT ![j] = on_photo_error]
                 /\ UNCHANGED <<processed_image, n_capture>>
              \/ /\ o = "cancelled"
                 /\ pc' = [pc EXCEPT ![j] = "print"]
                 /\ UNCHANGED <<processed_image, n_capture>>
              \/ /\ o = "captured"
                 /\ n_capture' = [n_capture EXCEPT ![j] = @ + 1]
                 /\ \E ph \in JobPhotos :
                       IF IsError(resize(ph[1], ph[2], DEFAULT_IMAGE_WIDTH))
                       THEN /\ pc' = [pc EXCEPT ![j] = on_photo_error]
                            /\ UNCHANGED processed_image
                       ELSE /\ pc' = [pc EXCEPT ![j] = "print"]
                            /\ processed_image' = [processed_image EXCEPT ![j] = "image"]
       ELSE /\ pc' = [pc EXCEPT ![j] = "print"]
            /\ UNCHANGED <<processed_image, n_capture>>
    /\ UNCHANGED <<configVars, uiVars, testing, selected_rarity, person, session,
                   out, err, outcome, n_sample, n_fetch, n_open, n_record>>

\* step 3, the except block: processed_image = None, then on to printing
PhotoExcept(j) ==
    /\ pc[j] = "photo_except"
    /\ processed_image' = [processed_image EXCEPT ![j] = None]
    /\ pc' = [pc EXCEPT ![j] = "print"]
    /\ UNCHANGED <<configVars, uiVars, countVars, testing, selected_rarity,
                   person, session, out, err, outcome>>

after_print(j) == IF testing[j] THEN "success" ELSE "record"

\* print_receipt without a printer: simulate_print_output
PrintSimulated(j) ==
    /\ pc[j] = "print"
    /\ ~PRINTER_AVAILABLE
    /\ out' = [out EXCEPT ![j] = simulated(person[j], processed_image[j])]
    /\ pc' = [pc EXCEPT ![j] = after_print(j)]
    /\ UNCHANGED <<configVars, uiVars, countVars, testing, selected_rarity,
                   person, processed_image, session, err, outcome>>

\* print_receipt: Usb(...) and printer.open()
PrinterOpen(j) ==
    /\ pc[j] = "print"
    /\ PRINTER_AVAILABLE
    /\ \E ok \in BOOLEAN :
          IF ok
          THEN /\ session' = [session EXCEPT ![j] = "open"]
               /\ n_open' = [n_open EXCEPT ![j] = @ + 1]
               /\ pc' = [pc EXCEPT ![j] = "directives"]
               /\ UNCHANGED err
          ELSE Raise(j, "printer") /\ UNCHANGED <<session, n_open>>
    /\ UNCHANGED <<configVars, uiVars, testing, selected_rarity, person,
                   processed_image, out, outcome, n_sample, n_fetch, n_capture,
                   n_record>>

\* mutant: the error of directive f is swallowed and the rest is sent
directive_error_skipped(ds, f) ==
    [out |-> SubSeq(ds, 1, f - 1) \o SubSeq(ds, f + 1, Len(ds)),
     pc |-> "close", err |-> "none"]

\* print_receipt: one try block around all directives; "except Exception"
\* re-raises as Exception("Printer error: ..."), so nothing after directive
\* f is sent and generate_receipt's handler is reached
on_directive_error(ds, f) ==
    [out |-> SubSeq(ds, 1, f - 1), pc |-> "except", err |-> "printer"]

\* print_receipt: the directives in order, up to the first one that raises
PrinterDirectives(j) ==
    /\ pc[j] = "directives"
    /\ LET ds == directives(person[j], processed_image[j])
       IN \/ /\ out' = [out EXCEPT ![j] = ds]
             /\ pc' = [pc EXCEPT ![j] = "close"]
             /\ UNCHANGED err
          \/ \E f \in FailPoints(ds) :
                /\ out' = [out EXCEPT ![j] = on_directive_error(ds, f).out]
                /\ pc' = [pc EXCEPT ![j] = on_directive_error(ds, f).pc]
                /\ err' = [err EXCEPT ![j] = on_directive_error(ds, f).err]
    /\ UNCHANGED <<configVars, uiVars, countVars, testing, selected_rarity,
                   person, processed_image, session, outcome>>

\* print_receipt: printer.close() at the end of the try block
PrinterClose(j) ==
    /\ pc[j] = "close"
    /\ session' = [session EXCEPT ![j] = "closed"]
    /\ pc' = [pc EXCEPT ![j] = after_print(j)]
    /\ UNCHANGED <<configVars, uiVars, countVars, testing, selected_rarity,
                   person, processed_image, out, err, outcome>>

\* step 5: create_receipt_record
CreateReceiptRecord(j) ==
    /\ pc[j] = "record"
    /\ \E resp \in Responses :
          IF resp = "ok"
          THEN /\ n_record' = [n_record EXCEPT ![j] = @ + 1]
               /\ pc' = [pc EXCEPT ![j] = "success"]
               /\ UNCHANGED err
          ELSE Raise(j, "record") /\ UNCHANGED n_record
    /\ UNCHANGED <<configVars, uiVars, testing, selected_rarity, person,
                   processed_image, session, out, outcome, n_sample, n_fetch,
                   n_capture, n_open>>

\* the locals of generate_receipt are dead once the outcome is reported
Report(j, o) ==
    /\ outcome' = [outcome EXCEPT ![j] = o]
    /\ pc' = [pc EXCEPT ![j] = "finally"]
    /\ person' = [person EXCEPT ![j] = None]
    /\ processed_image' = [processed_image EXCEPT ![j] = None]
    /\ session' = [session EXCEPT ![j] = "none"]
    /\ out' = [out EXCEPT ![j] = <<>>]
    /\ err' = [err EXCEPT ![j] = "none"]
    /\ n_sample' = [n_sample EXCEPT ![j] = 0]
    /\ n_fetch' = [n_fetch EXCEPT ![j] = 0]
    /\ n_capture' = [n_capture EXCEPT ![j] = 0]
    /\ n_open' = [n_open EXCEPT ![j] = 0]
    /\ n_record' = [n_record EXCEPT ![j] = 0]
    /\ UNCHANGED <<configVars, uiVars, testing, selected_rarity>>

\* the success branch: status line and messagebox.showinfo
ReportSuccess(j) == pc[j] = "success" /\ Report(j, "success")

\* the except branch: status line and messagebox.showerror
ReportError(j) == pc[j] = "except" /\ Report(j, "error")

\* mutant: the finally block stops the progress bar only
Finally_keeps_disabled(j) ==
    /\ pc[j] = "finally"
    /\ progress' = "stopped"
    /\ pc' = [pc EXCEPT ![j] = "done"]
    /\ UNCHANGED <<configVars, countVars, testing, selected_rarity, person,
                   processed_image, session, out, err, outcome, generate_button,
                   test_button>>

\* the finally block
Finally(j) ==
    /\ pc[j] = "finally"
    /\ progress' = "stopped"
    /\ generate_button' = "normal"
    /\ test_button' = "normal"
    /\ pc' = [pc EXCEPT ![j] = "done"]
    /\ UNCHANGED <<configVars, countVars, testing, selected_rarity, person,
                   processed_image, session, out, err, outcome>>

NextJobs ==
    \/ ClickGenerate
    \/ ClickTest
    \/ PressReturn
    \/ PressKPEnter
    \/ \E j \in Jobs : CheckConnection(j)
    \/ \E j \in Jobs : SelectRarity(j)
    \/ \E j \in Jobs : FetchPerson(j)
    \/ \E j \in Jobs : TakePhoto(j)
    \/ \E j \in Jobs : PhotoExcept(j)
    \/ \E j \in Jobs : PrintSimulated(j)
    \/ \E j \in Jobs : PrinterOpen(j)
    \/ \E j \in Jobs : PrinterDirectives(j)
    \/ \E j \in Jobs : PrinterClose(j)
    \/ \E j \in Jobs : CreateReceiptRecord(j)
    \/ \E j \in Jobs : ReportSuccess(j)
    \/ \E j \in Jobs : ReportError(j)
    \/ \E j \in Jobs : Finally(j)

\* the weight tables of the configuration check: the shipped table, an empty
\* table, a table of zero weights and a table of non-positive weights
ZeroTable == [i \in 1..6 |-> <<TierOrder[i], 0>>]
NegTable == << <<"E", 0>>, <<"D", 0 - 1>> >>
CfgTables == {RARITY_WEIGHTS, <<>>, ZeroTable, NegTable}

\* ========================================================== specifications



\* ============================================ take_and_process_photo_custom
\* c_camera is the state of the Picamera2 object (none while picam2 is
\* None), c_pending what the try block was doing when it was left:
\* returning None, raising, or falling through to the image processing.

\* where the function goes once the finally block is over
after_cleanup(p) ==
    CASE p = "return_none" -> "returned"
      [] p = "raise" -> "raised"
      [] p = "process" -> "process"

\* mutant: the try block without its finally clause
leave_try_no_finally(p) == after_cleanup(p)

\* the try block is left by return, by an exception or at its end: the
\* finally clause runs first
leave_try(p) == "finally"

InitCam ==
    /\ c_pc = "enter" /\ c_camera = "none" /\ c_pending = "none"
    /\ c_cleanup_failed = FALSE
    /\ c_photo \in JobPhotos
    /\ c_result = "none"

CamIdle ==
    /\ c_pc = "returned" /\ c_camera = "none" /\ c_pending = "none"
    /\ c_cleanup_failed = FALSE /\ c_photo = <<4, 3>> /\ c_result = "None"

\* an exception inside the try block
CamRaise ==
    /\ c_pending' = "raise"
    /\ c_pc' = leave_try("raise")

\* "if not CAMERA_AVAILABLE or not PIL_AVAILABLE: return None"
CamGuard ==
    /\ c_pc = "enter"
    /\ IF CAMERA_AVAILABLE /\ PIL_AVAILABLE
       THEN c_pc' = "create" /\ UNCHANGED c_result
       ELSE c_pc' = "returned" /\ c_result' = "None"
    /\ UNCHANGED <<c_camera, c_pending, c_cleanup_failed, c_photo>>

\* picam2 = Picamera2()
CamCreate ==
    /\ c_pc = "create"
    /\ \E ok \in BOOLEAN :
          IF ok THEN /\ c_camera' = "created" /\ c_pc' = "configure"
                     /\ UNCHANGED c_pending
                ELSE CamRaise /\ UNCHANGED c_camera
    /\ UNCHANGED <<c_cleanup_failed, c_photo, c_result>>

\* create_still_configuration() and configure(config)
CamConfigure ==
    /\ c_pc = "configure"
    /\ \E ok \in BOOLEAN :
          IF ok THEN c_pc' = "start" /\ UNCHANGED c_pending
                ELSE CamRaise
    /\ UNCHANGED <<c_camera, c_cleanup_failed, c_photo, c_result>>

\* picam2.start() and the two seconds of adjustment
CamStart ==
    /\ c_pc = "start"
    /\ \E ok \in BOOLEAN :
          IF ok THEN /\ c_camera' = "started" /\ c_pc' = "preview"
                     /\ UNCHANGED c_pending
                ELSE CamRaise /\ UNCHANGED c_camera
    /\ UNCHANGED <<c_cleanup_failed, c_photo, c_result>>

\* show_camera_preview: Take Photo, Cancel, or an exception
CamPreview ==
    /\ c_pc = "preview"
    /\ \E choice \in {"take_photo", "cancel", "error"} :
          \/ /\ choice = "take_photo"
             /\ c_pc' = "capture" /\ UNCHANGED c_pending
          \/ /\ choice = "cancel"
             /\ c_pending' = "return_none"
             /\ c_pc' = leave_try("return_none")
          \/ /\ choice = "error"
             /\ CamRaise
    /\ UNCHANGED <<c_camera, c_cleanup_failed, c_photo, c_result>>

\* picam2.capture_file(CAPTURE_FILENAME)
CamCapture ==
    /\ c_pc = "capture"
    /\ \E ok \in BOOLEAN :
          IF ok THEN /\ c_pending' = "process"
                     /\ c_pc' = leave_try("process")
                ELSE CamRaise
    /\ UNCHANGED <<c_camera, c_cleanup_failed, c_photo, c_result>>

\* finally: "if picam2 is not None" and picam2.stop(); an exception of
\* stop() skips close() and is only reported
CamStop ==
    /\ c_pc = "finally"
    /\ IF c_camera = "none"
       THEN /\ c_pc' = after_cleanup(c_pending)
            /\ UNCHANGED <<c_camera, c_cleanup_failed>>
       ELSE \E ok \in BOOLEAN :
              IF ok THEN /\ c_camera' = "stopped" /\ c_pc' = "close"
                         /\ UNCHANGED c_cleanup_failed
                    ELSE /\ c_cleanup_failed' = TRUE
                         /\ c_pc' = after_cleanup(c_pending)
                         /\ UNCHANGED c_camera
    /\ c_result' = IF c_pc' = "returned" THEN "None" ELSE c_result
    /\ UNCHANGED <<c_pending, c_photo>>

\* finally: picam2.close()
CamClose ==
    /\ c_pc = "close"
    /\ \E ok \in BOOLEAN :
          IF ok THEN c_camera' = "closed" /\ UNCHANGED c_cleanup_failed
                ELSE c_cleanup_failed' = TRUE /\ UNCHANGED c_camera
    /\ c_pc' = after_cleanup(c_pending)
    /\ c_result' = IF c_pc' = "returned" THEN "None" ELSE c_result
    /\ UNCHANGED <<c_pending, c_photo>>

\* the image processing after the finally block
CamProcess ==
    /\ c_pc = "process"
    /\ IF IsError(resize(c_photo[1], c_photo[2], DEFAULT_IMAGE_WIDTH))
       THEN c_pc' = "raised" /\ UNCHANGED c_result
       ELSE c_pc' = "returned" /\ c_result' = "image"
    /\ UNCHANGED <<c_camera, c_pending, c_cleanup_failed, c_photo>>

NextCam ==
    \/ CamGuard
    \/ CamCreate
    \/ CamConfigure
    \/ CamStart
    \/ CamPreview
    \/ CamCapture
    \/ CamStop
    \/ CamClose
    \/ CamProcess

\* =================================================== replace_norwegian_chars
\* A character is its code point and a string the sequence of its
\* characters: o-slash is 248 (0xF8), O-slash 216 (0xD8), a-ring 229 (0xE5),
\* A-ring 197 (0xC5), ae 230 (0xE6), AE 198 (0xC6).

\* mutant: the values are the two bytes of the UTF-8 encoding of the key
NORWEGIAN_CHAR_MAP_utf8 ==
    << <<248, <<195, 184>>>>, <<216, <<195, 152>>>>, <<229, <<195, 165>>>>,
       <<197, <<195, 133>>>>, <<230, <<195, 166>>>>, <<198, <<195, 134>>>> >>

\* the dictionary in insertion order, as <<key, value>>; the value '\xF8'
\* is the one-character string holding the code point 0xF8
NORWEGIAN_CHAR_MAP ==
    << <<248, <<248>>>>, <<216, <<216>>>>, <<229, <<229>>>>,
       <<197, <<197>>>>, <<230, <<230>>>>, <<198, <<198>>>> >>

\* str.replace(old, new) for a one-character old
RECURSIVE str_replace(_, _, _)
str_replace(text, old, new) ==
    IF text = <<>> THEN <<>>
    ELSE (IF Head(text) = old THEN new ELSE <<Head(text)>>)
         \o str_replace(Tail(text), old, new)

\* "for norwegian_char, utf8_byte in NORWEGIAN_CHAR_MAP.items()" from entry k
RECURSIVE replace_from(_, _, _)
replace_from(map, k, text) ==
    IF k > Len(map) THEN text
    ELSE replace_from(map, k + 1, str_replace(text, map[k][1], map[k][2]))

replace_norwegian_chars(text) == replace_from(NORWEGIAN_CHAR_MAP, 1, text)

\* the six mapped characters and the letter a
ReplAlphabet == {NORWEGIAN_CHAR_MAP[k][1] : k \in 1..Len(NORWEGIAN_CHAR_MAP)} \cup {97}

ReplTexts == UNION {[1..n -> ReplAlphabet] : n \in 0..MaxText}

\* the character class of replace_norwegian_chars_regex
pattern == {248, 216, 229, 197, 230, 198}

\* dict.get(key, default)
dict_get(map, key, default) ==
    IF \E k \in 1..Len(map) : map[k][1] = key
    THEN map[CHOOSE k \in 1..Len(map) : map[k][1] = key][2]
    ELSE default

\* mutant: a match is replaced by the empty string
replace_match_drop(char) == <<>>

\* replace_match: NORWEGIAN_CHAR_MAP.get(char, char)
replace_match(char) == dict_get(NORWEGIAN_CHAR_MAP, char, <<char>>)

RECURSIVE flatten(_)
flatten(ss) == IF ss = <<>> THEN <<>> ELSE Head(ss) \o flatten(Tail(ss))

\* re.sub(pattern, replace_match, text): one pass from left to right, the
\* replacement text is not scanned again
replace_norwegian_chars_regex(text) ==
    flatten([i \in 1..Len(text) |->
                IF text[i] \in pattern THEN replace_match(text[i]) ELSE <<text[i]>>])

InitRepl ==
    /\ r_text \in ReplTexts
    /\ r_result = <<>> /\ r_done = FALSE
    /\ r_regex = <<>> /\ r_regex_done = FALSE

ReplIdle ==
    /\ r_text = <<>>
    /\ r_result = <<>> /\ r_done = TRUE
    /\ r_regex = <<>> /\ r_regex_done = TRUE

\* process_ingredients: processed_ingredient = replace_norwegian_chars(ingredient)
ReplaceCall ==
    /\ ~r_done
    /\ r_result' = replace_norwegian_chars(r_text)
    /\ r_done' = TRUE
    /\ UNCHANGED <<r_text, r_regex, r_regex_done>>

\* test_encoding_approaches: processed = replace_norwegian_chars_regex(ingredient)
RegexCall ==
    /\ ~r_regex_done
    /\ r_regex' = replace_norwegian_chars_regex(r_text)
    /\ r_regex_done' = TRUE
    /\ UNCHANGED <<r_text, r_result, r_done>>

\* ==================================================== test_encoding_options
encodings_to_test == <<"CP865", "CP850", "CP437", "ISO8859-1", "UTF-8">>

CodePages == {encodings_to_test[i] : i \in 1..4}

\* what happens to the calls of one loop iteration on the USB transport:
\* all pass, one in the try block raises and the handler's text passes,
\* or the handler's text raises too
TransportOutcomes == {"ok", "error_handled", "error"}

\* mutant: the loop body without its try / except
rejection_escapes(enc, o) == [pc |-> "failed", out |-> o]

\* the inner "except Exception" of the loop: p.text("Error with ..."),
\* then the next iteration
after_rejection(enc, o) == [pc |-> "loop", out |-> Append(o, <<"error", enc>>)]

InitEnc ==
    /\ e_pc = "start" /\ e_idx = 1
    /\ e_accepts \in SUBSET CodePages
    /\ e_charcode \in BOOLEAN
    /\ e_active = "default" /\ e_rejections = 0 /\ e_out = <<>>
    /\ e_session = "none" /\ e_transport = FALSE

EncIdle ==
    /\ e_pc = "done" /\ e_idx = 1 /\ e_accepts = {} /\ e_charcode = TRUE
    /\ e_active = "default" /\ e_rejections = 0 /\ e_out = <<>>
    /\ e_session = "none" /\ e_transport = FALSE

\* the outer "except Exception": "Test failed" is printed, close() is skipped
EncFail ==
    /\ e_pc' = "failed"
    /\ e_transport' = TRUE

\* Usb(...) and p.open()
EncOpen ==
    /\ e_pc = "start"
    /\ \E ok \in BOOLEAN :
          IF ok THEN e_session' = "open" /\ e_pc' = "header" /\ UNCHANGED e_transport
                ELSE EncFail /\ UNCHANGED e_session
    /\ UNCHANGED <<e_idx, e_accepts, e_charcode, e_active, e_rejections, e_out>>

\* the centred title and the rule under it
EncHeader ==
    /\ e_pc = "header"
    /\ \E ok \in BOOLEAN :
          IF ok THEN /\ e_out' = <<<<"title", "">>, <<"rule", "">>>>
                     /\ e_pc' = "loop" /\ UNCHANGED e_transport
                ELSE EncFail /\ UNCHANGED e_out
    /\ UNCHANGED <<e_idx, e_accepts, e_charcode, e_active, e_rejections, e_session>>

after_loop(i) == IF i = Len(encodings_to_test) THEN "end" ELSE "loop"

\* one iteration of "for encoding, description in encodings_to_test"
EncCandidate ==
    /\ e_pc = "loop"
    /\ LET enc == encodings_to_test[e_idx]
           labelled == Append(e_out, <<"label", enc>>)
           sampled == Append(labelled, <<"sample", enc>>)
       IN \E t \in TransportOutcomes :
            \/ /\ t = "ok" /\ enc = "UTF-8"
               /\ e_out' = sampled /\ e_pc' = after_loop(e_idx)
               /\ UNCHANGED <<e_active, e_rejections, e_transport>>
            \/ /\ t = "ok" /\ enc # "UTF-8" /\ ~e_charcode
               /\ e_out' = sampled /\ e_pc' = after_loop(e_idx)
               /\ UNCHANGED <<e_active, e_rejections, e_transport>>
            \/ /\ t = "ok" /\ enc # "UTF-8" /\ e_charcode /\ enc \in e_accepts
               /\ e_active' = enc
               /\ e_out' = sampled /\ e_pc' = after_loop(e_idx)
               /\ UNCHANGED <<e_rejections, e_transport>>
            \/ /\ t = "ok" /\ enc # "UTF-8" /\ e_charcode /\ enc \notin e_accepts
               /\ e_rejections' = e_rejections + 1
               /\ e_out' = after_rejection(enc, labelled).out
               /\ e_pc' = IF after_rejection(enc, labelled).pc = "loop"
                          THEN after_loop(e_idx) ELSE "failed"
               /\ UNCHANGED <<e_active, e_transport>>
            \/ /\ t = "error_handled"
               /\ e_out' = Append(e_out, <<"error", enc>>)
               /\ e_pc' = after_loop(e_idx)
               /\ e_transport' = TRUE
               /\ UNCHANGED <<e_active, e_rejections>>
            \/ /\ t = "error"
               /\ EncFail
               /\ UNCHANGED <<e_active, e_rejections, e_out>>
    /\ e_idx' = IF e_pc' = "loop" THEN e_idx + 1 ELSE e_idx
    /\ UNCHANGED <<e_accepts, e_charcode, e_session>>

\* the closing rule, "End of encoding test" and p.ln(3)
EncEnd ==
    /\ e_pc = "end"
    /\ \E ok \in BOOLEAN :
          IF ok THEN /\ e_out' = Append(e_out, <<"end", "">>)
                     /\ e_pc' = "close" /\ UNCHANGED e_transport
                ELSE EncFail /\ UNCHANGED e_out
    /\ UNCHANGED <<e_idx, e_accepts, e_charcode, e_active, e_rejections, e_session>>

\* p.close()
EncClose ==
    /\ e_pc = "close"
    /\ e_session' = "closed"
    /\ e_pc' = "done"
    /\ UNCHANGED <<e_idx, e_accepts, e_charcode, e_active, e_rejections, e_out,
                   e_transport>>

NextEnc ==
    \/ EncOpen
    \/ EncHeader
    \/ EncCandidate
    \/ EncEnd
    \/ EncClose

WrapIdle == w_text = <<>> /\ w_width = 0 /\ w_lines = <<>> /\ w_done = TRUE
SamplerIdle == s_table = RARITY_WEIGHTS /\ s_draw = 0 /\ s_result = "none" /\ s_done = TRUE

ImgIdle == i_w = 1 /\ i_h = 1 /\ i_T = 1 /\ i_size = NoSize /\ i_done = TRUE

JobsIdle == InitJobs /\ rarity_weights = RARITY_WEIGHTS /\ PRINTER_AVAILABLE /\ CAMERA_AVAILABLE

NextWrap == WrapCall /\ UNCHANGED <<samplerVars, jobVars, encVars, imgVars, replVars, camVars>>
InitWrapSpec == InitWrap /\ SamplerIdle /\ JobsIdle /\ EncIdle /\ ImgIdle /\ ReplIdle /\ CamIdle
SpecWrap == InitWrapSpec /\ [][NextWrap]_vars

NextSampler == SampleCall /\ UNCHANGED <<wrapVars, jobVars, encVars, imgVars, replVars, camVars>>
InitSamplerSpec == InitSampler /\ WrapIdle /\ JobsIdle /\ EncIdle /\ ImgIdle /\ ReplIdle /\ CamIdle
SpecSampler == InitSamplerSpec /\ [][NextSampler]_vars

Init == InitJobs /\ rarity_weights = RARITY_WEIGHTS /\ WrapIdle /\ SamplerIdle /\ EncIdle /\ ImgIdle /\ ReplIdle /\ CamIdle
Next == NextJobs /\ UNCHANGED <<wrapVars, samplerVars, encVars, imgVars, replVars, camVars>>
Spec == Init /\ [][Next]_vars

InitCfg == InitJobs /\ rarity_weights \in CfgTables /\ WrapIdle /\ SamplerIdle /\ EncIdle /\ ImgIdle /\ ReplIdle /\ CamIdle
SpecCfg == InitCfg /\ [][Next]_vars

\* The jobs of earlier clicks have ended and the last two are still to be
\* started.
InitLive ==
    /\ text_width = DEFAULT_TEXT_WIDTH
    /\ rarity_weights = RARITY_WEIGHTS
    /\ \E cfg \in Imports :
          /\ PRINTER_AVAILABLE = cfg[1]
          /\ CAMERA_AVAILABLE = cfg[2]
          /\ PIL_AVAILABLE = cfg[3]
    /\ generate_button = "normal"
    /\ test_button = "normal"
    /\ progress = "stopped"
    /\ pc = [j \in Jobs |-> IF j <= MaxJobs - 2 THEN "done" ELSE "idle"]
    /\ outcome \in [Jobs -> {"none", "success", "error"}]
    /\ \A j \in Jobs : outcome[j] = "none" <=> pc[j] = "idle"
    /\ testing = [j \in Jobs |-> FALSE]
    /\ selected_rarity = [j \in Jobs |-> None]
    /\ person = [j \in Jobs |-> None]
    /\ processed_image = [j \in Jobs |-> None]
    /\ session = [j \in Jobs |-> "none"]
    /\ out = [j \in Jobs |-> <<>>]
    /\ err = [j \in Jobs |-> "none"]
    /\ n_sample = [j \in Jobs |-> 0]
    /\ n_fetch = [j \in Jobs |-> 0]
    /\ n_capture = [j \in Jobs |-> 0]
    /\ n_open = [j \in Jobs |-> 0]
    /\ n_record = [j \in Jobs |-> 0]
    /\ WrapIdle /\ SamplerIdle /\ EncIdle /\ ImgIdle /\ ReplIdle /\ CamIdle

Positions ==
    {"idle", "check", "select", "fetch", "photo", "photo_except", "print",
     "directives", "close", "record", "success", "except", "finally", "done"}

\* Worker thread j is scheduled: it takes its next step and is at another
\* position.  The steps of Next that move a running worker j are the steps
\* of generate_receipt in thread j, and a running worker always has one
\* (every call it makes returns or raises, every dialog is dismissed), so
\* weak fairness of ThreadStep(j) is weak fairness of the thread.
ThreadStep(j) ==
    /\ Running(j)
    /\ \E p \in Positions \ {pc[j]} : pc' = [pc EXCEPT ![j] = p]

SpecLive == InitLive /\ [][Next]_vars /\ \A j \in Jobs : WF_pc(ThreadStep(j))

NextEncoding == NextEnc /\ UNCHANGED <<wrapVars, samplerVars, jobVars, imgVars, replVars, camVars>>
InitEncoding == InitEnc /\ WrapIdle /\ SamplerIdle /\ JobsIdle /\ ImgIdle /\ ReplIdle /\ CamIdle
SpecEncoding == InitEncoding /\ [][NextEncoding]_vars

NextResize == ResizeCall /\ UNCHANGED <<wrapVars, samplerVars, jobVars, encVars, replVars, camVars>>
InitResize == InitImg /\ WrapIdle /\ SamplerIdle /\ JobsIdle /\ EncIdle /\ ReplIdle /\ CamIdle
SpecResize == InitResize /\ [][NextResize]_vars

NextRepl ==
    \/ ReplaceCall
    \/ RegexCall

NextReplace == NextRepl /\ UNCHANGED <<wrapVars, samplerVars, jobVars, encVars, imgVars, camVars>>
InitReplace == InitRepl /\ WrapIdle /\ SamplerIdle /\ JobsIdle /\ EncIdle /\ ImgIdle /\ CamIdle
SpecReplace == InitReplace /\ [][NextReplace]_vars

NextCamera == NextCam /\ UNCHANGED <<wrapVars, samplerVars, jobVars, encVars, imgVars, replVars>>
InitCamera ==
    /\ InitCam /\ InitJobs /\ rarity_weights = RARITY_WEIGHTS
    /\ WrapIdle /\ SamplerIdle /\ EncIdle /\ ImgIdle /\ ReplIdle
SpecCamera == InitCamera /\ [][NextCamera]_vars

\* ================================================================== claims

\* ---- C1 -----------------------------------------------------------------
\* C1: at most one receipt job runs at any time and at most one printer
\* session is open at any time.
C1_OneJobOneSession ==
    /\ Cardinality({j \in Jobs : Running(j)}) <= 1
    /\ Cardinality({j \in Jobs : session[j] = "open"}) <= 1

\* ---- C2 -----------------------------------------------------------------
\* C2: a job that is about to report its outcome (success or error) has no
\* printer session still open, and it opened at most one session.
C2_SessionClosedBeforeReport ==
    \A j \in Jobs :
        /\ n_open[j] <= 1
        /\ pc[j] \in {"success", "except"} => session[j] # "open"

\* ---- C3 -----------------------------------------------------------------
\* the greedy rule: a word joins the current non-empty line iff
\* len(line) + 1 + len(word) <= W, otherwise the line is emitted and the word
\* starts a new line; the last non-empty line is emitted at the end
RECURSIVE GreedyRule(_, _, _)
GreedyRule(words, line, W) ==
    IF words = <<>>
    THEN IF line = <<>> THEN <<>> ELSE <<line>>
    ELSE LET word == Head(words)
         IN IF line = <<>> THEN GreedyRule(Tail(words), word, W)
            ELSE IF Len(line) + 1 + Len(word) <= W
                 THEN GreedyRule(Tail(words), line \o <<SP>> \o word, W)
                 ELSE <<line>> \o GreedyRule(Tail(words), word, W)

\* C3: for every text and width, wrap_text returns exactly the lines of the
\* greedy rule applied to the words of the text.
C3_WrapIsGreedy ==
    w_done => w_lines = GreedyRule(split(w_text), <<>>, w_width)

\* "aa bb cc" at width 5 has been wrapped into two lines, the first of two words
C3_Witness ==
    /\ w_done
    /\ w_text = AaBbCc
    /\ w_width = 5
    /\ Len(w_lines) = 2
    /\ Len(split(w_lines[1])) = 2

\* ---- C4 -----------------------------------------------------------------
RECURSIVE JoinSp(_)
JoinSp(ss) ==
    IF ss = <<>> THEN <<>>
    ELSE IF Len(ss) = 1 THEN ss[1]
    ELSE ss[1] \o <<SP>> \o JoinSp(Tail(ss))

\* C4: wrap_text keeps every word whole and in order: the lines joined with
\* single spaces are the words joined with single spaces, no line is empty,
\* and a word longer than the width is a line of its own.
C4_WordsPreserved ==
    w_done =>
        LET words == split(w_text)
        IN /\ JoinSp(w_lines) = JoinSp(words)
           /\ \A k \in 1..Len(w_lines) : w_lines[k] # <<>>
           /\ \A i \in 1..Len(words) :
                 Len(words[i]) > w_width =>
                     \E k \in 1..Len(w_lines) : w_lines[k] = words[i]
           /\ (w_text = AaBbCc /\ w_width = 5) =>
                 w_lines = << <<"a", "a", SP, "b", "b">>, <<"c", "c">> >>

\* a word longer than the width, followed by shorter words, has been wrapped
C4_Witness ==
    /\ w_done
    /\ w_text = LongWord \o <<SP>> \o AaBbCc
    /\ w_width = 5
    /\ Len(w_lines) = 3
    /\ w_lines[1] = LongWord

\* ---- C5 -----------------------------------------------------------------
RECURSIVE DescriptionLines(_)
DescriptionLines(o) ==
    IF o = <<>> THEN <<>>
    ELSE (IF Head(o).part = "description" THEN Head(o).payload ELSE <<>>)
         \o DescriptionLines(Tail(o))

\* C5: when print_receipt has emitted its content, on the printer or on the
\* simulated output, the description was emitted as the lines of wrap_text at
\* the configured width.
C5_DescriptionWrapped ==
    \A j \in Jobs :
        (pc[j] \in {"close", "record", "success"} /\ out[j] # <<>>) =>
            DescriptionLines(out[j]) = wrap_text(Description(person[j]), text_width)

\* ---- C6 -----------------------------------------------------------------
RECURSIVE SumTo(_, _)
SumTo(table, i) == IF i = 0 THEN 0 ELSE SumTo(table, i - 1) + table[i][2]

\* the first tier, in declared order, whose cumulative weight exceeds x
FirstExceeding(table, x) ==
    LET i == CHOOSE k \in 1..Len(table) :
                 /\ SumTo(table, k) > x
                 /\ \A m \in 1..(k - 1) : SumTo(table, m) <= x
    IN table[i][1]

\* C6: for a table of positive total and a draw in [0, total) the sampler
\* returns the first tier whose cumulative weight exceeds the draw; with the
\* shipped table the result is one of the six tiers and every tier is
\* returned for some draw.
C6_FirstExceeding ==
    /\ (s_done /\ SumTo(s_table, Len(s_table)) > 0) =>
           s_result = FirstExceeding(s_table, s_draw)
    /\ (s_done /\ s_table = RARITY_WEIGHTS) => s_result \in Tiers
    /\ (s_table = RARITY_WEIGHTS /\ s_draw = 0) =>
           \A t \in Tiers :
               \E x \in Draws(RARITY_WEIGHTS) :
                   get_weighted_rarity(RARITY_WEIGHTS, x) = t

\* the rarest tier has been drawn from the shipped table
C6_Witness ==
    /\ s_done
    /\ s_table = RARITY_WEIGHTS
    /\ s_draw = 199
    /\ s_result = "S"

\* ---- C7 -----------------------------------------------------------------
\* C7: for a table of weights >= 0 with at least one positive weight and a
\* draw in [0, total) the sampler returns a tier of positive weight, never a
\* zero-weight tier; a single positive tier among zero-weight tiers is the
\* one returned.
C7_NeverZeroWeight ==
    (s_done /\ \E i \in 1..Len(s_table) : s_table[i][2] > 0) =>
        \E i \in 1..Len(s_table) :
            s_table[i][1] = s_result /\ s_table[i][2] > 0

\* the only positive tier, between two zero-weight tiers, has been returned
C7_Witness ==
    /\ s_done
    /\ s_table = << <<"E", 0>>, <<"D", 1>>, <<"C", 0>> >>
    /\ s_result = "D"

\* ---- C8 -----------------------------------------------------------------
BadTable(table) ==
    table = <<>> \/ \A i \in 1..Len(table) : table[i][2] <= 0

C9_NoCandidatesAborts ==
    \A j \in Jobs :
        (n_fetch[j] > 0 /\ person[j] = None) =>
            /\ pc[j] = "except"
            /\ err[j] = "no_person"
            /\ n_open[j] = 0 /\ session[j] = "none"
            /\ n_capture[j] = 0 /\ processed_image[j] = None
            /\ n_record[j] = 0
            /\ out[j] = <<>>

\* a job has fetched, got no person and is about to report the error
C9_Witness ==
    \E j \in Jobs :
        /\ n_fetch[j] = 1
        /\ person[j] = None
        /\ pc[j] = "except"
        /\ n_open[j] = 0

\* ---- C10 ----------------------------------------------------------------
\* C10: a job samples the rarity at most once and fetches at most once; once
\* it is past the selection it has sampled exactly once and fetched exactly
\* once, also when the fetch failed or was empty.
C10_SampleOnceFetchOnce ==
    \A j \in Jobs :
        /\ n_sample[j] <= 1
        /\ n_fetch[j] <= 1
        /\ pc[j] = "fetch" => (n_sample[j] = 1 /\ n_fetch[j] = 0)
        /\ (\/ pc[j] \in {"photo", "print", "directives", "close", "record", "success"}
            \/ (pc[j] = "except" /\ err[j] \in {"no_person", "printer", "record"})) =>
               (n_sample[j] = 1 /\ n_fetch[j] = 1)

\* a job whose only fetch gave nothing is in the error path after one sample
C10_Witness ==
    \E j \in Jobs :
        /\ err[j] = "no_person"
        /\ n_sample[j] = 1
        /\ n_fetch[j] = 1
        /\ selected_rarity[j] = None

\* ---- C11 ----------------------------------------------------------------
PartsOf(o) == {o[i].part : i \in {k \in 1..Len(o) : o[k].op \in {"text", "print", "image"}}}
TextParts == {"header", "name", "rarity", "description", "timestamp"}

\* C11: the photo step never leads to the error path: from the photo step
\* and from its except block the job goes on to print_receipt, after a
\* failure with no image; and a print without image that emitted its content
\* holds every text portion and no image.
C11_PhotoFailureNonFatal ==
    /\ [][\A j \in Jobs :
            /\ pc[j] = "photo" => pc'[j] \in {"photo", "photo_except", "print"}
            /\ pc[j] = "photo_except" =>
                  \/ pc'[j] = "photo_except"
                  \/ pc'[j] = "print" /\ processed_image'[j] = None]_vars
    /\ [](\A j \in Jobs :
            (pc[j] \in {"close", "record", "success"} /\ processed_image[j] = None) =>
                /\ TextParts \subseteq PartsOf(out[j])
                /\ "image" \notin PartsOf(out[j]))

\* a job whose photo step raised is in the except block of the photo step
C11_Witness ==
    \E j \in Jobs : pc[j] = "photo_except" /\ person[j] # None

\* ---- C12 ----------------------------------------------------------------
StrictPrefix(o, ds) == \E n \in 0..(Len(ds) - 1) : o = SubSeq(ds, 1, n)

\* C12: a directive of print_receipt that raises aborts the job: the
\* directives sent are exactly those before the failing one (no retry, none
\* after it), the job is in generate_receipt's handler with a printer error
\* and no receipt record, and from there it only reports the error.
C12_TransportErrorAborts ==
    /\ [][\A j \in Jobs :
            /\ (pc[j] = "directives" /\ pc'[j] # "directives") =>
                  LET ds == directives(person[j], processed_image[j])
                  IN \/ out'[j] = ds /\ pc'[j] = "close"
                     \/ /\ StrictPrefix(out'[j], ds)
                        /\ pc'[j] = "except" /\ err'[j] = "printer"
                        /\ n_record'[j] = 0
            /\ (pc[j] = "except" /\ err[j] = "printer") =>
                  \/ pc'[j] = "except" /\ out'[j] = out[j] /\ n_record'[j] = 0
                  \/ pc'[j] = "finally" /\ outcome'[j] = "error"]_vars
    /\ [](\A j \in Jobs :
            (pc[j] = "except" /\ err[j] = "printer") =>
                 /\ n_record[j] = 0
                 /\ session[j] = "open" =>
                       StrictPrefix(out[j], directives(person[j], processed_image[j])))

\* a job whose print failed at a directive after the first
C12_Witness ==
    \E j \in Jobs : /\ pc[j] = "except" /\ err[j] = "printer"
                    /\ session[j] = "open" /\ Len(out[j]) > 0

\* ---- C13 ----------------------------------------------------------------
RECURSIVE first_accepted(_, _)
first_accepted(i, acc) ==
    IF i > Len(encodings_to_test) - 1 THEN "default"
    ELSE IF encodings_to_test[i] \in acc THEN encodings_to_test[i]
         ELSE first_accepted(i + 1, acc)

\* the candidates tried before the first accepted one
rejected_before_first(acc) ==
    Cardinality({i \in 1..4 : \A k \in 1..i : encodings_to_test[k] \notin acc})

\* C13: the negotiation stops at the first accepted candidate: at the end
\* of a run without transport error the active code page is the first
\* accepted one in preference order and the rejections recorded are those
\* of the candidates before it.
C13_StopsAtFirstAccepted ==
    (e_pc = "done" /\ e_charcode /\ ~e_transport /\ e_accepts # {}) =>
        /\ e_active = first_accepted(1, e_accepts)
        /\ e_rejections = rejected_before_first(e_accepts)

\* ---- C14 ----------------------------------------------------------------
RangeOf(o) == {o[i] : i \in 1..Len(o)}

\* C14: a rejected code page never reaches the outer handler: the run only
\* fails on a transport error; when the device rejects every candidate the
\* session stays open during the loop, the rejection is reported on the
\* page, the UTF-8 sample and the closing text are still sent, and the run
\* ends with the session closed.
C14_AllRejectedStillPrints ==
    /\ e_pc = "failed" => e_transport
    /\ (e_accepts = {} /\ e_charcode /\ ~e_transport /\ e_rejections > 0) =>
          /\ e_pc \in {"loop", "end", "close", "done"}
          /\ e_pc # "done" => e_session = "open"
          /\ \A i \in 1..e_rejections : <<"error", encodings_to_test[i]>> \in RangeOf(e_out)
          /\ e_active = "default"
          /\ e_pc \in {"close", "done"} =>
                /\ e_rejections = 4
                /\ <<"sample", "UTF-8">> \in RangeOf(e_out)
                /\ e_out[Len(e_out)] = <<"end", "">>
          /\ e_pc = "done" => e_session = "closed"

\* the run ended after the device rejected all four code pages
C14_Witness ==
    /\ e_pc = "done" /\ e_accepts = {} /\ e_charcode /\ ~e_transport
    /\ e_rejections = 4 /\ e_session = "closed"

\* ---- C15 ----------------------------------------------------------------
\* C15: in every job close() is the last call made on the session: once
\* print_receipt is over, by return or by exception, a session that was
\* opened is closed, and no directive is sent on a closed session.
C15_CloseIsLastCall ==
    /\ [](\A j \in Jobs :
            (pc[j] \in {"record", "success", "except"} /\ n_open[j] > 0) =>
                session[j] = "closed")
    /\ [][\A j \in Jobs :
            session[j] = "closed" => (out'[j] = out[j] \/ session'[j] = "none")]_vars

\* ---- C16 ----------------------------------------------------------------
\* the place of each portion in the layout; the rarity line belongs to the
\* person info, the text-size line of the simulation precedes the description
Rank(part) ==
    CASE part = "header" -> 1
      [] part = "name" -> 2
      [] part = "rarity" -> 3
      [] part = "textsize" -> 4
      [] part = "description" -> 5
      [] part = "timestamp" -> 6
      [] part = "image" -> 7
      [] part = "footer" -> 8

InOrder(o) == \A i, k \in 1..Len(o) : i < k => Rank(o[i].part) <= Rank(o[k].part)

NotImage(d) == d.part # "image"

\* C16: when print_receipt has emitted its content, the portions are in
\* the order header, name, description, image (exactly when there is one),
\* footer; without the image directives the output is the output of the
\* same receipt without image; and close() comes after all of them and adds
\* nothing.
C16_FixedLayout ==
    /\ [](\A j \in Jobs :
            pc[j] \in {"close", "record", "success"} =>
                /\ InOrder(out[j])
                /\ {"header", "name", "description", "footer"} \subseteq
                      {out[j][i].part : i \in 1..Len(out[j])}
                /\ ("image" \in PartsOf(out[j])) <=>
                      (processed_image[j] # None /\ (PIL_AVAILABLE \/ ~PRINTER_AVAILABLE))
                /\ SelectSeq(out[j], NotImage) =
                      IF PRINTER_AVAILABLE THEN directives(person[j], None)
                                           ELSE simulated(person[j], None)
                /\ (PRINTER_AVAILABLE /\ pc[j] # "close") => session[j] = "closed")
    /\ [][\A j \in Jobs :
            (session[j] = "open" /\ session'[j] = "closed") =>
                /\ out[j] = directives(person[j], processed_image[j])
                /\ out'[j] = out[j]]_vars

\* a receipt with image was printed on the printer and the session closed
C16_Witness ==
    \E j \in Jobs : /\ pc[j] = "success" /\ session[j] = "closed"
                    /\ "image" \in PartsOf(out[j])

\* ---- C17 ----------------------------------------------------------------
\* C17: when a job is about to report its outcome, it has created exactly
\* one receipt record if it is not a test job and its print_receipt
\* returned without error, and none otherwise.
C17_RecordIffPrinted ==
    \A j \in Jobs :
        /\ n_record[j] <= 1
        /\ pc[j] \in {"success", "except"} =>
              n_record[j] =
                  IF ~testing[j] /\ (pc[j] = "success" \/ err[j] = "record")
                  THEN 1 ELSE 0

\* ---- C18 ----------------------------------------------------------------
\* round(T * h / w), halves to the even neighbour
round_half_even(w, h, T) ==
    LET q == (T * h) \div w
        r == (T * h) % w
    IN IF 2 * r < w THEN q
       ELSE IF 2 * r > w THEN q + 1
       ELSE IF q % 2 = 0 THEN q ELSE q + 1

\* C18: the image that resize produces from a photo of positive width w
\* and height h for the target width T has width T and height
\* round(T * h / w).
C18_RoundedHeight ==
    (i_done /\ ~IsError(i_size)) =>
        i_size.size = <<i_T, round_half_even(i_w, i_h, i_T)>>

\* ---- C19 ----------------------------------------------------------------
MappedChars == {NORWEGIAN_CHAR_MAP[k][1] : k \in 1..Len(NORWEGIAN_CHAR_MAP)}

ValueOf(c) ==
    NORWEGIAN_CHAR_MAP[CHOOSE k \in 1..Len(NORWEGIAN_CHAR_MAP) : NORWEGIAN_CHAR_MAP[k][1] = c][2]

\* C19: replace_norwegian_chars returns a string of the length of its
\* input that holds, at the place of every mapped character, the value the
\* map gives for it, and at every other place the character of the input.
C19_SameLengthPositionwise ==
    r_done =>
        /\ Len(r_result) = Len(r_text)
        /\ \A i \in 1..Len(r_text) :
              IF r_text[i] \in MappedChars
              THEN <<r_result[i]>> = ValueOf(r_text[i])
              ELSE r_result[i] = r_text[i]

\* a string with a mapped and an unmapped character was converted
C19_Witness ==
    /\ r_done /\ Len(r_text) >= 2
    /\ \E i, k \in 1..Len(r_text) : r_text[i] \in MappedChars /\ r_text[k] \notin MappedChars

\* ---- C21 ----------------------------------------------------------------
\* C21: a job whose health check returned false is in the except branch
\* having sampled, fetched, captured, opened and recorded nothing, and
\* from there it only reports the error outcome.
C21_HealthCheckFalseAborts ==
    /\ [](\A j \in Jobs :
            err[j] = "connect" =>
                /\ pc[j] = "except"
                /\ n_sample[j] = 0 /\ n_fetch[j] = 0 /\ n_capture[j] = 0
                /\ n_open[j] = 0 /\ n_record[j] = 0
                /\ session[j] = "none" /\ out[j] = <<>> /\ person[j] = None)
    /\ [][\A j \in Jobs :
            err[j] = "connect" =>
                \/ pc'[j] = "except" /\ err'[j] = "connect"
                \/ pc'[j] = "finally" /\ outcome'[j] = "error"]_vars

\* a job whose health check returned false
C21_Witness ==
    \E j \in Jobs : pc[j] = "except" /\ err[j] = "connect"

\* ---- C22 ----------------------------------------------------------------
\* C22: every started job reaches the end of its finally block, and the
\* step that ends it stops the progress bar and sets both buttons to
\* normal, whatever the outcome of the job.
C22_JobEndsAndReenables ==
    /\ \A j \in Jobs :
          Running(j) ~> (/\ pc[j] = "done" /\ outcome[j] \in {"success", "error"}
                         /\ progress = "stopped"
                         /\ generate_button = "normal" /\ test_button = "normal")
    /\ [][\A j \in Jobs :
            (pc[j] # "done" /\ pc'[j] = "done") =>
                /\ pc[j] = "finally"
                /\ progress' = "stopped"
                /\ generate_button' = "normal" /\ test_button' = "normal"]_vars

\* a job that failed and a job that succeeded have both ended
C22_Witness ==
    \E j, k \in Jobs : /\ pc[j] = "done" /\ outcome[j] = "error"
                       /\ pc[k] = "done" /\ outcome[k] = "success"

\* ---- C23 ----------------------------------------------------------------
\* C23: while a generate_receipt worker is running, the Generate and the
\* Test button are disabled.
C23_ButtonsDisabledWhileRunning ==
    (\E j \in Jobs : Running(j)) =>
        (generate_button = "disabled" /\ test_button = "disabled")

C25_RegexAgreesAndIdempotent ==
    (r_done /\ r_regex_done) =>
        /\ r_regex = r_result
        /\ replace_norwegian_chars(r_result) = r_result
        /\ replace_norwegian_chars_regex(r_regex) = r_regex

\* both replacements were applied to a string with mapped characters
C25_Witness ==
    /\ r_done /\ r_regex_done
    /\ \E i \in 1..Len(r_text) : r_text[i] \in pattern
    /\ \E i \in 1..Len(r_text) : r_text[i] \notin pattern

====
